---- MODULE Spec2Model ----
(***************************************************************************)
(* windowToggle: WindowToggleSubscriber of                                 *)
(* src/internal/operators/windowToggle.ts as a state machine.              *)
(*                                                                         *)
(* One action per notification that reaches the subscriber (source,        *)
(* openings, a closing notifier, downstream unsubscribe).  Each action     *)
(* runs the whole handler, including the notifications a closing notifier  *)
(* delivers synchronously while it is being subscribed at line 167.        *)
(*                                                                         *)
(* Indices are 1-based: index i of the source is i + 1 here, and the       *)
(* "not found" result -1 of indexOf is 0.                                  *)
(***************************************************************************)
EXTENDS Integers, Sequences, FiniteSets, TLC

\* Bounds of the model.
MaxOpenings == 3        \* opening values the openings stream delivers
MaxSource == 2          \* values the source delivers

Ids == 1..MaxOpenings   \* window k is the one created for the k-th opening value
Errors == {1, 2}        \* error causes
Null == <<0>>           \* this.contexts = null (0 is no window id)
Undefined == -1         \* this.openSubscription before line 90 assigns it
OpenInner == 0          \* the InnerSubscriber of the openings stream

\* What a closing notifier does synchronously while it is subscribed.
SyncKinds == {"none", "next", "complete", "next_complete", "error", "next_error"}

VARIABLES
  contexts,          \* this.contexts: sequence of window ids, or Null
  openSubscription,  \* this.openSubscription: Undefined or OpenInner
  window,            \* window[id]: the calls made on context.window (a Subject)
  subscription,      \* subscription[id]: "none" | "open" | "closed" (context.subscription)
  inner,             \* inner[id]: "none" | "live" | "closed" (the closing notifier's InnerSubscriber)
  added,             \* added[id]: lines 172-173 ran (inner.context set, inner added to subscription)
  openInner,         \* "live" | "closed": the InnerSubscriber of openings
  source,            \* "unsubscribed" | "live" | "closed": the source subscription
  isStopped,         \* Subscriber.isStopped
  closed,            \* Subscription.closed of the subscriber
  destination,       \* the calls made on this.destination
  thrown,            \* a TypeError escaped a handler (property access on null)
  phase,             \* "constructor" (inside line 90's subscribeToResult) | "running"
  nOpen,             \* opening values delivered so far
  nSource,           \* source values delivered so far
  own,               \* history: own[id], window id's own closing notifier has emitted or completed
  expected,          \* history: expected[id], source values delivered while id was open and own[id] false
  call,              \* history: the notification the last action handled
  out                \* history: the outbound calls the last action made, in order

vars == <<contexts, openSubscription, window, subscription, inner, added, openInner,
          source, isStopped, closed, destination, thrown, phase, nOpen, nSource,
          own, expected, call, out>>

----------------------------------------------------------------------------
\* The mutable state the handlers work on, as one record.

Cur ==
  [contexts |-> contexts, openSubscription |-> openSubscription, window |-> window,
   subscription |-> subscription, inner |-> inner, added |-> added,
   openInner |-> openInner, source |-> source, isStopped |-> isStopped,
   closed |-> closed, destination |-> destination, thrown |-> thrown, out |-> <<>>]

Becomes(s) ==
  /\ contexts' = s.contexts
  /\ openSubscription' = s.openSubscription
  /\ window' = s.window
  /\ subscription' = s.subscription
  /\ inner' = s.inner
  /\ added' = s.added
  /\ openInner' = s.openInner
  /\ source' = s.source
  /\ isStopped' = s.isStopped
  /\ closed' = s.closed
  /\ destination' = s.destination
  /\ thrown' = s.thrown
  /\ out' = s.out

\* An outbound call: to = 0 is this.destination, to = id is window id.
Ev(to, k, x) == [to |-> to, k |-> k, x |-> x]

\* contexts.indexOf(id); 0 when absent.
indexOf(cs, id) ==
  IF \E i \in 1..Len(cs) : cs[i] = id
    THEN CHOOSE i \in 1..Len(cs) : cs[i] = id /\ \A j \in 1..(i - 1) : cs[j] # id
    ELSE 0

\* contexts.splice(index, 1)
splice(cs, index) == SubSeq(cs, 1, index - 1) \o SubSeq(cs, index + 1, Len(cs))

----------------------------------------------------------------------------
\* Collaborators: Subject, Subscription, Subscriber.

\* context.window.next / error / complete / unsubscribe
windowCall(s, id, k, x) ==
  [s EXCEPT !.window[id] = Append(@, [k |-> k, x |-> x]),
            !.out = Append(@, Ev(id, k, x))]

\* context.subscription.unsubscribe(): cancels the handle and what was added to it
subscriptionUnsubscribe(s, id) ==
  [s EXCEPT !.subscription[id] = "closed",
            !.inner[id] = IF s.added[id] THEN "closed" ELSE @,
            !.out = Append(@, Ev(id, "cancel", 0))]

\* Subscription.add(child) on context.subscription: a handle that is already
\* closed unsubscribes the child at once
handleAdd(s, id) ==
  [s EXCEPT !.inner[id] = IF s.subscription[id] = "closed" THEN "closed" ELSE @]

\* this.destination.next / error / complete
destinationCall(s, k, x) ==
  [s EXCEPT !.destination = Append(@, [k |-> k, x |-> x]),
            !.out = Append(@, Ev(0, k, x))]

----------------------------------------------------------------------------
\* WindowToggleSubscriber.

\* Mutant of closeWindow: the context is not spliced out of the array
closeWindow_NoSplice(s, index) ==
  IF index = 0
    THEN s
    ELSE subscriptionUnsubscribe(windowCall(s, s.contexts[index], "complete", 0),
                                 s.contexts[index])

\* Mutant of closeWindow: splice removes the first context, not the one at index
closeWindow_SplicesFirst(s, index) ==
  IF index = 0
    THEN s
    ELSE LET id == s.contexts[index]
             s1 == [s EXCEPT !.contexts = splice(@, 1)]
         IN subscriptionUnsubscribe(windowCall(s1, id, "complete", 0), id)

\* Mutant of closeWindow: the handle of the context is not unsubscribed
closeWindow_NoUnsubscribe(s, index) ==
  IF index = 0
    THEN s
    ELSE windowCall([s EXCEPT !.contexts = splice(@, index)],
                    s.contexts[index], "complete", 0)

\* closeWindow(index), lines 194-205
closeWindow(s, index) ==
  IF index = 0
    THEN s
    ELSE LET id == s.contexts[index]
             s1 == [s EXCEPT !.contexts = splice(@, index)]
         IN subscriptionUnsubscribe(windowCall(s1, id, "complete", 0), id)

\* The loop of _next, lines 96-99, over the contexts from index i on
RECURSIVE nextEach(_, _, _)
nextEach(s, i, value) ==
  IF i > Len(s.contexts)
    THEN s
    ELSE nextEach(windowCall(s, s.contexts[i], "next", value), i + 1, value)

\* Mutant of _next: the loop starts at index 1 of the source, not 0
_next_SkipsFirst(s, value) ==
  IF s.contexts # Null THEN nextEach(s, 2, value) ELSE s

\* _next(value), lines 93-101
_next(s, value) ==
  IF s.contexts # Null THEN nextEach(s, 1, value) ELSE s

\* The loops of _error, _complete and _unsubscribe over the captured contexts:
\* one call k on the window, then the handle unsubscribed
RECURSIVE teardownEach(_, _, _, _)
teardownEach(s, cs, k, x) ==
  IF cs = <<>>
    THEN s
    ELSE teardownEach(subscriptionUnsubscribe(windowCall(s, Head(cs), k, x), Head(cs)),
                      Tail(cs), k, x)

\* Mutant of _unsubscribe: the windows are completed, not unsubscribed
_unsubscribe_Completes(s) ==
  LET cs == s.contexts
      s1 == [s EXCEPT !.contexts = Null]
  IN IF cs # Null THEN teardownEach(s1, cs, "complete", 0) ELSE s1

\* Mutant of _unsubscribe: this.contexts is not set to null
_unsubscribe_KeepsContexts(s) ==
  IF s.contexts # Null THEN teardownEach(s, s.contexts, "unsubscribe", 0) ELSE s

\* _unsubscribe(), lines 137-149
_unsubscribe(s) ==
  LET cs == s.contexts
      s1 == [s EXCEPT !.contexts = Null]
  IN IF cs # Null THEN teardownEach(s1, cs, "unsubscribe", 0) ELSE s1

\* Subscriber.unsubscribe(): once; runs _unsubscribe, then cancels what was
\* added to the subscriber (the source subscription, and the openings
\* subscription once line 90 has added it)
unsubscribe(s) ==
  IF s.closed
    THEN s
    ELSE LET s1 == _unsubscribe([s EXCEPT !.isStopped = TRUE, !.closed = TRUE])
         IN [s1 EXCEPT !.source = IF @ = "live" THEN "closed" ELSE @,
                       !.openInner = IF s.openSubscription = OpenInner THEN "closed" ELSE @]

\* Mutant of _error: the windows are not told, only downstream
_error_DownstreamOnly(s, err) ==
  unsubscribe(destinationCall([s EXCEPT !.contexts = Null], "error", err))

\* Mutant of _error: downstream is told before the windows
_error_DownstreamFirst(s, err) ==
  LET cs == s.contexts
      s1 == destinationCall([s EXCEPT !.contexts = Null], "error", err)
  IN unsubscribe(IF cs # Null THEN teardownEach(s1, cs, "error", err) ELSE s1)

\* _error(err), lines 103-120; super._error is destination.error, then unsubscribe
_error(s, err) ==
  LET cs == s.contexts
      s1 == [s EXCEPT !.contexts = Null]
      s2 == IF cs # Null THEN teardownEach(s1, cs, "error", err) ELSE s1
  IN unsubscribe(destinationCall(s2, "error", err))

\* Mutant of _complete: downstream is completed before the windows
_complete_DownstreamFirst(s) ==
  LET cs == s.contexts
      s1 == destinationCall([s EXCEPT !.contexts = Null], "complete", 0)
  IN unsubscribe(IF cs # Null THEN teardownEach(s1, cs, "complete", 0) ELSE s1)

\* _complete(), lines 122-135; super._complete is destination.complete, then unsubscribe
_complete(s) ==
  LET cs == s.contexts
      s1 == [s EXCEPT !.contexts = Null]
      s2 == IF cs # Null THEN teardownEach(s1, cs, "complete", 0) ELSE s1
  IN unsubscribe(destinationCall(s2, "complete", 0))

\* Subscriber.error(err): the first terminal notification wins
error(s, err) ==
  IF s.isStopped THEN s ELSE _error([s EXCEPT !.isStopped = TRUE], err)

\* Subscriber.complete()
complete(s) ==
  IF s.isStopped THEN s ELSE _complete([s EXCEPT !.isStopped = TRUE])

\* notifyError(err), lines 184-186
notifyError(s, err) == error(s, err)

\* A property of null is read: the handler ends with a TypeError
typeError(s) == [s EXCEPT !.thrown = TRUE]

\* notifyNext, the else branch of line 179: a closing notifier emitted,
\* outerValue is the context of window id
notifyNextClosing(s, id) ==
  IF s.contexts = Null
    THEN typeError(s)
    ELSE closeWindow(s, indexOf(s.contexts, id))

\* Mutant of notifyComplete: the completion of the openings stream completes
\* the subscriber
notifyComplete_OpeningsTerminal(s, innerSub) ==
  IF innerSub = OpenInner
    THEN complete(s)
    ELSE IF s.contexts = Null
           THEN typeError(s)
           ELSE closeWindow(s, IF s.added[innerSub] THEN indexOf(s.contexts, innerSub) ELSE 0)

\* notifyComplete(inner), lines 188-192; inner is OpenInner or the id of the
\* window whose closing notifier completed; inner.context is set by line 172
notifyComplete(s, innerSub) ==
  IF innerSub # s.openSubscription
    THEN IF s.contexts = Null
           THEN typeError(s)
           ELSE closeWindow(s, IF innerSub # OpenInner /\ s.added[innerSub]
                                 THEN indexOf(s.contexts, innerSub)
                                 ELSE 0)
    ELSE s

\* subscribeToResult(this, closingNotifier, context), line 167: the closing
\* notifier is subscribed and delivers what it delivers synchronously
subscribeToResult(s, id, kind, err) ==
  LET s1 == IF kind \in {"next", "next_complete", "next_error"}
              THEN notifyNextClosing(s, id)
              ELSE s
      s2 == CASE kind \in {"complete", "next_complete"} -> notifyComplete(s1, id)
              [] kind \in {"error", "next_error"} -> notifyError(s1, err)
              [] OTHER -> s1
  IN [s2 EXCEPT !.inner[id] = IF kind \in {"none", "next"} THEN "live" ELSE "closed"]

\* Mutant of subscriptionAdd: the inner subscription is not added to the handle
subscriptionAdd_Forgets(s, id) == s

\* innerSubscription.context = context; subscription.add(innerSubscription),
\* lines 172-173
subscriptionAdd(s, id) == handleAdd([s EXCEPT !.added[id] = TRUE], id)

\* Mutant of notifyNextOpening: the window is passed downstream before the
\* closed subscription is looked at
notifyNextOpening_EmitFirst(s, id, ok, kind, err) ==
  IF ~ok
    THEN error(s, err)
    ELSE IF s.contexts = Null
      THEN typeError(s)
      ELSE
        LET s1 == [s EXCEPT !.subscription[id] = "open", !.contexts = Append(@, id)]
            s2 == destinationCall(subscribeToResult(s1, id, kind, err), "next", id)
        IN IF s2.inner[id] = "closed"
             THEN IF s2.contexts = Null
                    THEN typeError(s2)
                    ELSE closeWindow(s2, Len(s2.contexts))
             ELSE subscriptionAdd(s2, id)

\* notifyNext, the branch of line 155: the openings stream emitted; ok says
\* whether closingSelector returned, err is what it threw otherwise; id is
\* the window this opening creates
notifyNextOpening(s, id, ok, kind, err) ==
  IF ~ok
    THEN error(s, err)
    ELSE IF s.contexts = Null
      THEN typeError(s)
      ELSE
        LET s1 == [s EXCEPT !.subscription[id] = "open", !.contexts = Append(@, id)]
            s2 == subscribeToResult(s1, id, kind, err)
        IN IF s2.inner[id] = "closed"
             THEN IF s2.contexts = Null
                    THEN typeError(s2)
                    ELSE destinationCall(closeWindow(s2, Len(s2.contexts)), "next", id)
             ELSE destinationCall(subscriptionAdd(s2, id), "next", id)

----------------------------------------------------------------------------
\* The state machine.

\* The notification an action handled: pre is this.contexts when it arrived
Call(op, id, x, kind) == [op |-> op, id |-> id, x |-> x, kind |-> kind, pre |-> contexts]

\* Line 83 and the start of line 90: fields initialised, openings being subscribed
Init ==
  /\ contexts = <<>>
  /\ openSubscription = Undefined
  /\ window = [id \in Ids |-> <<>>]
  /\ subscription = [id \in Ids |-> "none"]
  /\ inner = [id \in Ids |-> "none"]
  /\ added = [id \in Ids |-> FALSE]
  /\ openInner = "live"
  /\ source = "unsubscribed"
  /\ isStopped = FALSE
  /\ closed = FALSE
  /\ destination = <<>>
  /\ thrown = FALSE
  /\ phase = "constructor"
  /\ nOpen = 0
  /\ nSource = 0
  /\ own = [id \in Ids |-> FALSE]
  /\ expected = [id \in Ids |-> <<>>]
  /\ call = [op |-> "init", id |-> 0, x |-> 0, kind |-> "none", pre |-> <<>>]
  /\ out = <<>>

\* Line 90 after subscribeToResult returns: openSubscription is assigned and
\* added to the subscriber (a closed subscriber unsubscribes it at once);
\* then line 66 subscribes the subscriber to the source
ConstructorEnd ==
  /\ phase = "constructor"
  /\ phase' = "running"
  /\ Becomes([Cur EXCEPT !.openSubscription = OpenInner,
                         !.openInner = IF closed THEN "closed" ELSE @,
                         !.source = IF closed THEN "closed" ELSE "live"])
  /\ call' = Call("constructorEnd", 0, 0, "none")
  /\ UNCHANGED <<nOpen, nSource, own, expected>>

\* The openings stream emits its next value; closingSelector returns a
\* closing notifier that behaves as kind while it is subscribed
OpeningNext(kind, err) ==
  /\ openInner = "live"
  /\ nOpen < MaxOpenings
  /\ nOpen' = nOpen + 1
  /\ Becomes(notifyNextOpening(Cur, nOpen + 1, TRUE, kind, err))
  /\ own' = [own EXCEPT ![nOpen + 1] = contexts # Null /\ kind # "none"]
  /\ call' = Call("openingNext", nOpen + 1, err, kind)
  /\ UNCHANGED <<phase, nSource, expected>>

\* The openings stream emits its next value and closingSelector throws err
OpeningNextThrows(err) ==
  /\ openInner = "live"
  /\ nOpen < MaxOpenings
  /\ nOpen' = nOpen + 1
  /\ Becomes(notifyNextOpening(Cur, nOpen + 1, FALSE, "none", err))
  /\ call' = Call("openingNextThrows", nOpen + 1, err, "none")
  /\ UNCHANGED <<phase, nSource, own, expected>>

\* The openings stream errors: InnerSubscriber._error
OpeningError(err) ==
  /\ openInner = "live"
  /\ Becomes([notifyError(Cur, err) EXCEPT !.openInner = "closed"])
  /\ call' = Call("openingError", 0, err, "none")
  /\ UNCHANGED <<phase, nOpen, nSource, own, expected>>

\* The openings stream completes: InnerSubscriber._complete
OpeningComplete ==
  /\ openInner = "live"
  /\ Becomes([notifyComplete(Cur, OpenInner) EXCEPT !.openInner = "closed"])
  /\ call' = Call("openingComplete", 0, 0, "none")
  /\ UNCHANGED <<phase, nOpen, nSource, own, expected>>

\* The source emits value nSource + 1: Subscriber.next
SourceNext ==
  /\ source = "live"
  /\ ~isStopped
  /\ nSource < MaxSource
  /\ nSource' = nSource + 1
  /\ Becomes(_next(Cur, nSource + 1))
  /\ expected' = [id \in Ids |->
                    IF id <= nOpen /\ ~own[id] /\ subscription[id] # "none"
                      THEN Append(expected[id], nSource + 1)
                      ELSE expected[id]]
  /\ call' = Call("sourceNext", 0, nSource + 1, "none")
  /\ UNCHANGED <<phase, nOpen, own>>

\* The source errors: Subscriber.error
SourceError(err) ==
  /\ source = "live"
  /\ Becomes(error(Cur, err))
  /\ call' = Call("sourceError", 0, err, "none")
  /\ UNCHANGED <<phase, nOpen, nSource, own, expected>>

\* The source completes: Subscriber.complete
SourceComplete ==
  /\ source = "live"
  /\ Becomes(complete(Cur))
  /\ call' = Call("sourceComplete", 0, 0, "none")
  /\ UNCHANGED <<phase, nOpen, nSource, own, expected>>

\* The closing notifier of window id emits, after its subscribe call returned
ClosingNext(id) ==
  /\ inner[id] = "live"
  /\ Becomes(notifyNextClosing(Cur, id))
  /\ own' = [own EXCEPT ![id] = TRUE]
  /\ call' = Call("closingNext", id, 0, "none")
  /\ UNCHANGED <<phase, nOpen, nSource, expected>>

\* The closing notifier of window id completes, after its subscribe call returned
ClosingComplete(id) ==
  /\ inner[id] = "live"
  /\ Becomes([notifyComplete(Cur, id) EXCEPT !.inner[id] = "closed"])
  /\ own' = [own EXCEPT ![id] = TRUE]
  /\ call' = Call("closingComplete", id, 0, "none")
  /\ UNCHANGED <<phase, nOpen, nSource, expected>>

\* The closing notifier of window id errors, after its subscribe call returned
ClosingError(id, err) ==
  /\ inner[id] = "live"
  /\ Becomes([notifyError(Cur, err) EXCEPT !.inner[id] = "closed"])
  /\ call' = Call("closingError", id, err, "none")
  /\ UNCHANGED <<phase, nOpen, nSource, own, expected>>

\* Downstream unsubscribes
Unsubscribe ==
  /\ phase = "running"
  /\ ~closed
  /\ Becomes(unsubscribe(Cur))
  /\ call' = Call("unsubscribe", 0, 0, "none")
  /\ UNCHANGED <<phase, nOpen, nSource, own, expected>>

Next ==
  \/ ConstructorEnd
  \/ \E kind \in {"none", "next", "complete", "next_complete"} : OpeningNext(kind, 0)
  \/ \E kind \in {"error", "next_error"}, err \in Errors : OpeningNext(kind, err)
  \/ \E err \in Errors : OpeningNextThrows(err)
  \/ \E err \in Errors : OpeningError(err)
  \/ OpeningComplete
  \/ SourceNext
  \/ \E err \in Errors : SourceError(err)
  \/ SourceComplete
  \/ \E id \in Ids : ClosingNext(id)
  \/ \E id \in Ids : ClosingComplete(id)
  \/ \E id \in Ids, err \in Errors : ClosingError(id, err)
  \/ Unsubscribe

Spec == Init /\ [][Next]_vars

TypeOK ==
  /\ contexts = Null \/ \A i \in 1..Len(contexts) : contexts[i] \in Ids
  /\ openSubscription \in {Undefined, OpenInner}
  /\ \A id \in Ids : subscription[id] \in {"none", "open", "closed"}
  /\ \A id \in Ids : inner[id] \in {"none", "live", "closed"}
  /\ openInner \in {"live", "closed"}
  /\ source \in {"unsubscribed", "live", "closed"}
  /\ phase \in {"constructor", "running"}
  /\ nOpen \in 0..MaxOpenings
  /\ nSource \in 0..MaxSource

----------------------------------------------------------------------------
\* Vocabulary of the properties.

\* The window ids of a contexts value (none when it is Null)
Elems(cs) == IF cs = Null THEN {} ELSE {cs[i] : i \in 1..Len(cs)}

\* Window id is in this.contexts
InSet(id) == id \in Elems(contexts)

\* Window id was passed to destination.next
Emitted(id) == \E i \in 1..Len(destination) : destination[i] = [k |-> "next", x |-> id]

\* The calls of kind k in a log
Only(log, k) == SelectSeq(log, LAMBDA e : e.k = k)

\* The values of the next calls of a log, in order
NextValues(log) == [i \in 1..Len(Only(log, "next")) |-> Only(log, "next")[i].x]

\* The terminal calls of a window's log
Terminals(log) == SelectSeq(log, LAMBDA e : e.k \in {"complete", "error", "unsubscribe"})

\* The first position of call e in the last action's outbound calls, 0 when absent
Pos(e) ==
  IF \E i \in 1..Len(out) : out[i] = e
    THEN CHOOSE i \in 1..Len(out) : out[i] = e /\ \A j \in 1..(i - 1) : out[j] # e
    ELSE 0

\* The last call of a log is of one of the kinds ks
EndsWith(log, ks) == Len(log) > 0 /\ log[Len(log)].k \in ks

\* The last call of a log is e
EndsIn(log, e) == Len(log) > 0 /\ log[Len(log)] = e

\* cs without id
Without(cs, id) == SelectSeq(cs, LAMBDA c : c # id)

\* For every window of cs in order: call k on it, then its handle cancelled
RECURSIVE TeardownCalls(_, _, _)
TeardownCalls(cs, k, x) ==
  IF cs = <<>> THEN <<>>
  ELSE <<Ev(Head(cs), k, x), Ev(Head(cs), "cancel", 0)>> \o TeardownCalls(Tail(cs), k, x)

\* The last action was a notification (emission or completion) of the closing
\* notifier of window call.id, delivered later or during its subscribe call
OwnClosingNotified ==
  \/ call.op \in {"closingNext", "closingComplete"}
  \/ call.op = "openingNext" /\ call.kind \in {"next", "complete", "next_complete"}
                             /\ call.pre # Null

\* The last action was an error of the closing notifier of window call.id
ClosingNotifierErrored ==
  \/ call.op = "closingError"
  \/ call.op = "openingNext" /\ call.kind \in {"error", "next_error"} /\ call.pre # Null

\* The subscribe call of line 167 returned a closed subscription for window id
ClosedAtSubscribe(id) == inner[id] = "closed" /\ ~added[id]

----------------------------------------------------------------------------
\* C1: every window emitted downstream receives exactly the source values
\* delivered after its opening was processed and before its own closing
\* notifier emitted or completed (or the subscriber terminated); no other
\* window's closing notifier cuts it short.
C1_WindowGetsItsValues ==
  \A id \in Ids : Emitted(id) => NextValues(window[id]) = expected[id]

\* C2: a notification of the closing notifier of window C closes C and only
\* C: C leaves the set with its sink completed, every other context stays in
\* the set, its sink not terminated and its handle not cancelled.
C2_ClosesOnlyItsWindow ==
  OwnClosingNotified =>
    /\ contexts = Without(call.pre, call.id)
    /\ Only(window[call.id], "complete") = <<[k |-> "complete", x |-> 0]>>
    /\ \A id \in Elems(call.pre) \ {call.id} :
         /\ Terminals(window[id]) = <<>>
         /\ subscription[id] = "open"

\* C3 as stated: every emitted window that has left the set has received
\* exactly one of {complete, unsubscribe}, and nothing after it.
C3_OneCompleteOrCancel ==
  \A id \in Ids :
    Emitted(id) /\ ~InSet(id) =>
      /\ Len(Only(window[id], "complete")) + Len(Only(window[id], "unsubscribe")) = 1
      /\ EndsWith(window[id], {"complete", "unsubscribe"})

\* C3 as amended: every emitted window receives at most one of {complete,
\* error, unsubscribe}, exactly one once it has left the set, none while it
\* is in the set, and no call at all after it.
C3_OneTerminal ==
  \A id \in Ids :
    Emitted(id) =>
      /\ Len(Terminals(window[id])) = (IF InSet(id) THEN 0 ELSE 1)
      /\ ~InSet(id) => EndsWith(window[id], {"complete", "error", "unsubscribe"})

\* C3 witness: two emitted windows torn down, one closed by its notifier
\* after receiving a value and one by a terminal of the subscriber.
C3_Witness ==
  \E a, b \in Ids :
    /\ a # b /\ Emitted(a) /\ Emitted(b) /\ contexts = Null
    /\ Len(window[a]) >= 2 /\ EndsWith(window[a], {"complete"})
    /\ EndsWith(window[b], {"error", "unsubscribe"})

\* C4: when the closing notifier of a window errors with cause x, every
\* context in the set at that moment gets error(x) on its sink, and the
\* subscriber enters the Error terminal (downstream gets error(x)).
C4_FaultPromotion ==
  ClosingNotifierErrored =>
    /\ contexts = Null /\ isStopped
    /\ \A id \in Elems(call.pre) \cup (IF call.kind = "error" THEN {call.id} ELSE {}) :
         EndsIn(window[id], [k |-> "error", x |-> call.x])
    /\ EndsIn(destination, [k |-> "error", x |-> call.x])
    /\ Pos(Ev(0, "error", call.x)) = Len(out)

\* C4 witness: the closing notifier of one of two open windows errored.
C4_Witness ==
  /\ call.op = "closingError"
  /\ Len(call.pre) >= 2
  /\ call.x = 2

\* C5: on any fault downstream receives exactly one error call, and once it
\* has, the source, openings and every closing-notifier subscription are
\* cancelled.
C5_OneErrorAllCancelled ==
  Len(Only(destination, "error")) >= 1 =>
    /\ Len(Only(destination, "error")) = 1
    /\ source # "live"
    /\ openInner = "closed"
    /\ \A id \in Ids : inner[id] # "live"

\* C6: after any terminal transition the set holds no contexts and every
\* handle ever created is cancelled.
C6_Drained ==
  contexts = Null =>
    /\ \A id \in Ids : subscription[id] # "open" /\ inner[id] # "live"
    /\ openInner = "closed"
    /\ source # "live"

\* C7: when the subscribe call for a window's closing notifier returns an
\* already-closed subscription, the window is out of the set, its sink
\* never receives a value, and a window delivered downstream has had its
\* sink completed before destination.next was called with it.
C7_ImmediateClosure ==
  \A id \in Ids :
    ClosedAtSubscribe(id) =>
      /\ ~InSet(id)
      /\ NextValues(window[id]) = <<>>
      /\ Emitted(id) => window[id] = <<[k |-> "complete", x |-> 0]>>
      /\ call.op = "openingNext" /\ call.id = id /\ Emitted(id) =>
           /\ 0 < Pos(Ev(id, "complete", 0))
           /\ Pos(Ev(id, "complete", 0)) < Pos(Ev(0, "next", id))

\* C7 witness: a window closed at subscribe time was emitted, and a window
\* opened after it has received a source value.
C7_Witness ==
  \E id, o \in Ids :
    /\ ClosedAtSubscribe(id) /\ Emitted(id)
    /\ o > id /\ Len(Only(window[o], "next")) >= 1

\* C8: a source value delivered while N contexts are in the set reaches
\* each of the N sinks exactly once, in set order, within the handler, which
\* neither changes the set nor calls downstream.
C8_FanOut ==
  call.op = "sourceNext" =>
    /\ contexts = call.pre
    /\ out = [i \in 1..Len(call.pre) |-> Ev(call.pre[i], "next", call.x)]

\* C8 witness: a source value arrived with two windows open.
C8_Witness == call.op = "sourceNext" /\ Len(call.pre) >= 2 /\ Len(out) >= 2

\* C9: when closingSelector throws x on an opening value, no context is
\* created, no window is delivered for that opening, and the subscriber
\* performs the Error terminal with cause x: downstream receives error(x)
\* in that handler.  Stated for the runs in which no handler has ended with
\* a TypeError.
C9_SelectorThrows ==
  call.op = "openingNextThrows" /\ ~thrown =>
    /\ subscription[call.id] = "none"
    /\ ~InSet(call.id) /\ ~Emitted(call.id)
    /\ contexts = Null
    /\ Len(out) > 0 /\ out[Len(out)] = Ev(0, "error", call.x)

\* C10: when the source completes, every context of the set, in set order,
\* has complete called on its sink and then its handle cancelled, and only
\* then downstream receives complete, exactly once.
C10_SourceComplete ==
  call.op = "sourceComplete" =>
    /\ out = TeardownCalls(call.pre, "complete", 0) \o <<Ev(0, "complete", 0)>>
    /\ Len(Only(destination, "complete")) = 1
    /\ contexts = Null

\* C10 witness: the source completed with two windows open.
C10_Witness == call.op = "sourceComplete" /\ Len(call.pre) >= 2

\* C11: when downstream cancels with no prior error or completion, every
\* context then in the set has unsubscribe (not complete, not error) called
\* on its sink and its handle cancelled, in set order, and downstream
\* receives no notification in that handler nor in any later step.
C11_Cancel ==
  /\ [](call.op = "unsubscribe" =>
          /\ out = TeardownCalls(call.pre, "unsubscribe", 0)
          /\ contexts = Null
          /\ \A id \in Elems(call.pre) :
               /\ EndsIn(window[id], [k |-> "unsubscribe", x |-> 0])
               /\ Len(Terminals(window[id])) = 1
               /\ subscription[id] = "closed")
  /\ [][call.op = "unsubscribe" => destination' = destination]_vars

\* C11 witness: downstream cancelled with two windows open, one of which
\* had received a source value.
C11_Witness ==
  /\ call.op = "unsubscribe"
  /\ Len(call.pre) >= 2
  /\ \E id \in Elems(call.pre) : Len(Only(window[id], "next")) >= 1

\* C12: the completion of the openings stream, also while line 90 is still
\* subscribing it, is not terminal: the step changes neither the set, nor a
\* sink, nor a handle, nor the stopped and closed flags, and calls nothing;
\* afterwards a source value still fans out to the open windows and a closing
\* notifier still closes its window.
C12_OpeningsCompleteNotTerminal ==
  /\ [][openInner = "live" /\ call'.op = "openingComplete" =>
          /\ contexts' = contexts /\ window' = window /\ destination' = destination
          /\ subscription' = subscription /\ inner' = inner /\ source' = source
          /\ isStopped' = isStopped /\ closed' = closed
          /\ out' = <<>>]_vars
  /\ [](openInner = "closed" /\ call.op = "sourceNext" =>
          out = [i \in 1..Len(call.pre) |-> Ev(call.pre[i], "next", call.x)])
  /\ [](openInner = "closed" /\ call.op \in {"closingNext", "closingComplete"} =>
          /\ ~InSet(call.id)
          /\ EndsIn(window[call.id], [k |-> "complete", x |-> 0]))

\* C12 witness: the openings stream completed inside the constructor with a
\* window open.
C12_Witness ==
  /\ call.op = "openingComplete"
  /\ phase = "constructor"
  /\ Len(call.pre) >= 1
  /\ contexts = call.pre

\* The Error and Complete calls downstream has received
DownstreamTerminals == Len(Only(destination, "error")) + Len(Only(destination, "complete"))

\* C13: at most one Error or Complete terminal transition occurs: downstream
\* and every sink receive at most one terminal call, and once the transition
\* has happened the source, the openings and every closing-notifier
\* subscription are cancelled.
C13_OneTerminalTransition ==
  /\ DownstreamTerminals <= 1
  /\ \A id \in Ids : Len(Terminals(window[id])) <= 1
  /\ DownstreamTerminals = 1 =>
       /\ source # "live"
       /\ openInner = "closed"
       /\ \A id \in Ids : inner[id] # "live"

\* C14: every opening value processed while the subscriber is not terminated
\* and for which closingSelector returns gets exactly one window delivered
\* downstream in that handler, also when its closing notifier closed it
\* during subscribe, and windows are delivered in the order of their openings.
C14_OneWindowPerOpening ==
  /\ call.op = "openingNext" /\ call.pre # Null =>
       /\ Len(SelectSeq(out, LAMBDA e : e = Ev(0, "next", call.id))) = 1
       /\ Len(SelectSeq(destination, LAMBDA e : e = [k |-> "next", x |-> call.id])) = 1
  /\ \A i, j \in 1..Len(NextValues(destination)) :
       i < j => NextValues(destination)[i] < NextValues(destination)[j]

\* The last action was a fault: closingSelector threw, the source errored,
\* the openings stream errored or a closing notifier errored
Faulted ==
  \/ call.op \in {"openingNextThrows", "sourceError", "openingError"}
  \/ ClosingNotifierErrored

\* The contexts that were in the set at the moment of the last action's fault
LiveAtFault ==
  Elems(call.pre) \cup
    (IF call.op = "openingNext" /\ call.kind = "error" /\ call.pre # Null
       THEN {call.id} ELSE {})

\* C15: for each fault kind, every context live at the moment of the fault
\* has error(cause) called on its sink strictly before downstream receives
\* error(cause).
C15_WindowsBeforeDownstream ==
  Faulted /\ call.pre # Null =>
    /\ Pos(Ev(0, "error", call.x)) = Len(out) /\ Len(out) > 0
    /\ \A id \in LiveAtFault :
         /\ 0 < Pos(Ev(id, "error", call.x))
         /\ Pos(Ev(id, "error", call.x)) < Pos(Ev(0, "error", call.x))

\* C15 witness: closingSelector threw with two windows open.
C15_Witness ==
  /\ call.op = "openingNextThrows"
  /\ Len(call.pre) >= 2
  /\ Len(out) = 5

\* C16: the sink of any window, emitted or not, receives at most one of
\* {complete, unsubscribe} over its lifetime, and once it has received one
\* it receives no further call: a window closed by closeWindow is not touched
\* again by a later Complete, Error or Cancel of the subscriber.
C16_AtMostOneCompleteOrCancel ==
  \A id \in Ids :
    LET n == Len(Only(window[id], "complete")) + Len(Only(window[id], "unsubscribe"))
    IN /\ n <= 1
       /\ n = 1 => EndsWith(window[id], {"complete", "unsubscribe"})

\* C16 witness: a window that had received a value was closed by its closing
\* notifier, and the subscriber later completed, errored or was cancelled
\* with another window open.
C16_Witness ==
  /\ call.op \in {"sourceComplete", "sourceError", "unsubscribe"}
  /\ Len(call.pre) >= 1
  /\ \E a \in Ids \ Elems(call.pre) :
       /\ Len(window[a]) >= 2
       /\ EndsIn(window[a], [k |-> "complete", x |-> 0])

\* C17: in every state between two handlers a context that line 166 pushed
\* is in the set if and only if its sink has received no complete, error or
\* unsubscribe, and no two entries of the set are the same context.
C17_InSetIffNotTornDown ==
  /\ \A id \in Ids :
       subscription[id] # "none" => (InSet(id) <=> Terminals(window[id]) = <<>>)
  /\ contexts # Null =>
       \A i, j \in 1..Len(contexts) : i # j => contexts[i] # contexts[j]

\* C17 witness: two windows are open, one having received a value, and a
\* third has been torn down and is out of the set.
C17_Witness ==
  /\ contexts # Null /\ Len(contexts) >= 2
  /\ \E a, b \in Ids :
       /\ InSet(a) /\ Len(window[a]) >= 1
       /\ ~InSet(b) /\ subscription[b] # "none" /\ Terminals(window[b]) # <<>>

\* C18: in every state between two handlers every context in the set has
\* its one closing-notifier subscription live, and that subscription has been
\* added to the context's handle, which is not cancelled.
C18_OneLiveClosingSubscription ==
  \A id \in Elems(contexts) :
    /\ inner[id] = "live"
    /\ added[id]
    /\ subscription[id] = "open"

\* C18 witness: two windows are open and another one has been closed.
C18_Witness ==
  /\ contexts # Null /\ Len(contexts) >= 2
  /\ \E b \in Ids : ~InSet(b) /\ inner[b] = "closed" /\ added[b]

\* C19: a closing notifier that errors while it is being subscribed is
\* handled correctly: the Error terminal is performed once (the sinks that
\* were in the set and downstream get error(cause)), and the rest of the
\* handler runs without fault: it does not read this.contexts after it has
\* been set to null.
C19_SyncErrorHandled ==
  call.op = "openingNext" /\ call.kind \in {"error", "next_error"} /\ call.pre # Null =>
    /\ contexts = Null
    /\ Len(Only(destination, "error")) = 1
    /\ EndsIn(destination, [k |-> "error", x |-> call.x])
    /\ \A id \in Elems(call.pre) : EndsIn(window[id], [k |-> "error", x |-> call.x])
    /\ ~thrown

\* C20: no closing-notifier subscription is live for a window that has left
\* the set; in particular a closing notifier that emits during subscribe
\* without completing has its window closed inside the subscribe call, and
\* its subscription is cancelled when line 173 adds it to the handle that
\* closeWindow has already cancelled.
C20_NoLiveSubscriptionOutsideSet ==
  /\ \A id \in Ids : subscription[id] # "none" /\ ~InSet(id) => inner[id] = "closed"
  /\ call.op = "openingNext" /\ call.kind = "next" /\ call.pre # Null =>
       /\ contexts = call.pre
       /\ window[call.id] = <<[k |-> "complete", x |-> 0]>>
       /\ subscription[call.id] = "closed"
       /\ added[call.id]
       /\ Pos(Ev(call.id, "complete", 0)) < Pos(Ev(0, "next", call.id))

\* C20 witness: with a window open, a closing notifier emitted during its
\* subscribe call without completing.
C20_Witness ==
  /\ call.op = "openingNext" /\ call.kind = "next"
  /\ Len(call.pre) >= 1
  /\ inner[call.id] = "closed" /\ added[call.id]

====
